---- MODULE Spec2Model ----
(***************************************************************************)
(* SearchClient of the Oblien Search SDK: the checks and the requests of   *)
(* search, extract and crawl, and the read loop of crawl over the          *)
(* server-sent event stream of POST /search/crawl, its classification of   *)
(* events, the handler dispatch and the reduction to the final result.     *)
(*                                                                         *)
(* Text is a sequence of lexemes: a chunk boundary falls between two       *)
(* lexemes.  A lexeme is a tuple whose first element names it: <<"\n">>,    *)
(* <<"data: ">>, the JSON punctuation, <<"str", words>> for a string       *)
(* literal, <<"num", n>>, <<"true">>, <<"false">>, <<"null">>, and         *)
(* <<"word", words>> for bare text that is no JSON.  A JavaScript string   *)
(* is the sequence of its words, so that String.includes is a search.      *)
(***************************************************************************)
EXTENDS Integers, Sequences, FiniteSets, TLC

VARIABLES
    calls,               \* the crawl calls: the locals of each and what it came to
    engineQuotesSource,  \* whether JSON.parse quotes the source text in its error
    replay,              \* the chunk reads of a first call, for the call that repeats it;
                         \* for calls that run together, what the loop of each comes
                         \* to on the chunks it read
    client               \* the SearchClient: this.clientId, this.clientSecret, this.apiURL

vars == <<calls, engineQuotesSource, replay, client>>

(* ------------------------------ bounds -------------------------------- *)

\* The longest stream the server sends, in lines.
MaxLines == 2

\* The longest stream of a call that is repeated, in lines, and the most
\* chunk reads of such a call.
MaxReplayLines == 1
MaxChunks == 3

(* --------------------------- JavaScript values ------------------------- *)

JUndefined == [t |-> "undefined"]
JNull == [t |-> "null"]
JBool(b) == [t |-> "bool", b |-> b]
JNum(n) == [t |-> "num", n |-> n]
JStr(s) == [t |-> "str", s |-> s]
\* An object: its own properties in insertion order, <<key, value>> each.
JObj(m) == [t |-> "obj", m |-> m]
\* An array: its elements in index order.
JArr(a) == [t |-> "arr", a |-> a]

IsStr(v, s) == v.t = "str" /\ v.s = s

\* obj[key]: the property, or undefined (also on a number, string or boolean).
Get(v, key) ==
    IF v.t = "obj" /\ \E i \in 1..Len(v.m) : v.m[i][1] = <<key>>
    THEN v.m[CHOOSE i \in 1..Len(v.m) : v.m[i][1] = <<key>>][2]
    ELSE JUndefined

\* ToBoolean
Truthy(v) ==
    CASE v.t = "undefined" -> FALSE
      [] v.t = "null" -> FALSE
      [] v.t = "bool" -> v.b
      [] v.t = "num" -> v.n # 0
      [] v.t = "str" -> v.s # <<>>
      [] OTHER -> TRUE

\* ToString, as new Error(message) applies it
JSToString(v) ==
    CASE v.t = "str" -> v.s
      [] v.t = "num" -> <<"<number>">>
      [] v.t = "bool" -> IF v.b THEN <<"true">> ELSE <<"false">>
      [] OTHER -> <<"[object Object]">>

\* String.prototype.includes
Includes(s, needle) ==
    \E i \in 0..(Len(s) - Len(needle)) :
        \A j \in 1..Len(needle) : s[i + j] = needle[j]

(* ------------------------------ JSON.parse ----------------------------- *)

\* The source text of a lexeme sequence, in words.
RECURSIVE TextOf(_)
TextOf(toks) ==
    IF toks = <<>> THEN <<>>
    ELSE LET k == Head(toks)
         IN (IF k[1] \in {"str", "word"} THEN k[2] ELSE <<k[1]>>) \o TextOf(Tail(toks))

ParseFail == [ok |-> FALSE]
ParseOk(v, next) == [ok |-> TRUE, val |-> v, next |-> next]

\* Defining a property: a repeated key keeps its place and takes the new value.
PutMember(m, key, v) ==
    IF \E i \in 1..Len(m) : m[i][1] = key
    THEN [i \in 1..Len(m) |-> IF m[i][1] = key THEN <<key, v>> ELSE m[i]]
    ELSE Append(m, <<key, v>>)

RECURSIVE ParseValue(_, _), ParseMembers(_, _, _), ParseElements(_, _, _)

\* What follows an element whose value was parsed as v: ']' ends the
\* array, ',' leads to the next element.
AfterElement(t, acc, v) ==
    IF ~v.ok \/ v.next > Len(t) THEN ParseFail
    ELSE CASE t[v.next][1] = "]" -> ParseOk(JArr(Append(acc, v.val)), v.next + 1)
           [] t[v.next][1] = "," -> ParseElements(t, v.next + 1, Append(acc, v.val))
           [] OTHER -> ParseFail

\* What follows a member whose value was parsed as v: '}' ends the object,
\* ',' leads to the next member.
AfterMember(t, key, acc, v) ==
    IF ~v.ok \/ v.next > Len(t) THEN ParseFail
    ELSE CASE t[v.next][1] = "}" ->
                ParseOk(JObj(PutMember(acc, key, v.val)), v.next + 1)
           [] t[v.next][1] = "," ->
                ParseMembers(t, v.next + 1, PutMember(acc, key, v.val))
           [] OTHER -> ParseFail

\* A value that starts at lexeme i, and the place after it.
ParseValue(t, i) ==
    IF i > Len(t) THEN ParseFail
    ELSE LET k == t[i][1]
         IN CASE k = "null" -> ParseOk(JNull, i + 1)
              [] k = "true" -> ParseOk(JBool(TRUE), i + 1)
              [] k = "false" -> ParseOk(JBool(FALSE), i + 1)
              [] k = "num" -> ParseOk(JNum(t[i][2]), i + 1)
              [] k = "str" -> ParseOk(JStr(t[i][2]), i + 1)
              [] k = "{" ->
                   IF i + 1 <= Len(t) /\ t[i + 1][1] = "}"
                   THEN ParseOk(JObj(<<>>), i + 2)
                   ELSE ParseMembers(t, i + 1, <<>>)
              [] k = "[" ->
                   IF i + 1 <= Len(t) /\ t[i + 1][1] = "]"
                   THEN ParseOk(JArr(<<>>), i + 2)
                   ELSE ParseElements(t, i + 1, <<>>)
              [] OTHER -> ParseFail

\* The members of an object from lexeme i on: "key" : value, then , or }.
ParseMembers(t, i, acc) ==
    IF i + 1 > Len(t) \/ t[i][1] # "str" \/ t[i + 1][1] # ":" THEN ParseFail
    ELSE AfterMember(t, t[i][2], acc, ParseValue(t, i + 2))

\* The elements of an array from lexeme i on: value, then , or ].
ParseElements(t, i, acc) == AfterElement(t, acc, ParseValue(t, i))

\* The message of the SyntaxError JSON.parse throws.  Recent V8 quotes the
\* source text in it ('Unexpected token ..., "<text>" is not valid JSON');
\* older engines name only the token and its position.
SyntaxErrorMessage(t, quotes) ==
    IF quotes
    THEN <<"Unexpected token">> \o TextOf(t) \o <<"is not valid JSON">>
    ELSE <<"Unexpected token in JSON at position">>

\* The text must be one value and nothing more.
WholeText(r, t, quotes) ==
    IF r.ok /\ r.next = Len(t) + 1
    THEN [ok |-> TRUE, val |-> r.val]
    ELSE [ok |-> FALSE, message |-> SyntaxErrorMessage(t, quotes)]

\* JSON.parse(text): the value, or the SyntaxError it throws.
JSONParse(t, quotes) == WholeText(ParseValue(t, 1), t, quotes)

(* ------------------------------ the wire ------------------------------- *)

NL == <<"\n">>
DataPrefix == <<"data: ">>
LB == <<"{">>
RB == <<"}">>
Colon == <<":">>
Comma == <<",">>

(* ---------------------------- JSON.stringify --------------------------- *)

\* The pieces of text with a comma between each two.
RECURSIVE Joined(_)
Joined(pieces) ==
    IF pieces = <<>> THEN <<>>
    ELSE IF Len(pieces) = 1 THEN pieces[1]
    ELSE pieces[1] \o <<Comma>> \o Joined(Tail(pieces))

IsDefined(member) == member[2].t # "undefined"

\* JSON.stringify(v) of a value that is not undefined: a property whose
\* value is undefined is left out, an undefined element is written null.
RECURSIVE Stringify(_)
Stringify(v) ==
    CASE v.t = "null" -> <<<<"null">>>>
      [] v.t = "undefined" -> <<<<"null">>>>
      [] v.t = "bool" -> <<<<IF v.b THEN "true" ELSE "false">>>>
      [] v.t = "num" -> <<<<"num", v.n>>>>
      [] v.t = "str" -> <<<<"str", v.s>>>>
      [] v.t = "arr" ->
           <<<<"[">>>> \o Joined([i \in 1..Len(v.a) |-> Stringify(v.a[i])]) \o <<<<"]">>>>
      [] v.t = "obj" ->
           LET own == SelectSeq(v.m, IsDefined)
           IN <<LB>> \o Joined([i \in 1..Len(own) |->
                                   <<<<"str", own[i][1]>>, Colon>> \o Stringify(own[i][2])])
                 \o <<RB>>
S(w) == <<"str", <<w>>>>

\* "key":"value"
StrMember(key, w) == <<S(key), Colon, S(w)>>

\* data: {"type":"<type>"}
EventLine(type) == <<DataPrefix, LB>> \o StrMember("type", type) \o <<RB>>

\* {"success":<flag>,"time_took":<n>}
ResultText(flag, n) ==
    <<LB, S("success"), Colon, <<IF flag THEN "true" ELSE "false">>, Comma,
      S("time_took"), Colon, <<"num", n>>, RB>>

\* data: {"type":"crawl_end","data":{"success":<flag>,"time_took":<n>}}
CrawlEndLine(flag, n) ==
    <<DataPrefix, LB>> \o StrMember("type", "crawl_end")
        \o <<Comma, S("data"), Colon>> \o ResultText(flag, n) \o <<RB>>

ThinkingLine == EventLine("thinking")
PageCrawledLine == EventLine("page_crawled")
\* an event type this client does not know
FutureLine == EventLine("progress")
\* data: {"type":"content","text":"hello"}
ContentLine ==
    <<DataPrefix, LB>> \o StrMember("type", "content") \o <<Comma>>
        \o StrMember("text", "hello") \o <<RB>>
\* data: {"type":"error"}
ErrorBareLine == EventLine("error")
\* data: {"type":"error","error":"Rate limit exceeded"}
ErrorLine ==
    <<DataPrefix, LB>> \o StrMember("type", "error") \o <<Comma>>
        \o StrMember("error", "Rate limit exceeded") \o <<RB>>
\* data: {"type":"error","error":"Crawl error: page unreachable"}
ErrorSentinelLine ==
    <<DataPrefix, LB>> \o StrMember("type", "error")
        \o <<Comma, S("error"), Colon, <<"str", <<"Crawl error", ": page unreachable">>>>, RB>>
EndLineA == CrawlEndLine(TRUE, 42)
EndLineB == CrawlEndLine(FALSE, 7)
\* data: {"type":"crawl_end"}
EndNoDataLine == EventLine("crawl_end")
\* data: {"type":        (a truncated payload)
TruncatedLine == <<DataPrefix, LB, S("type"), Colon>>
\* data: Crawl error upstream        (a payload that is no JSON)
GarbageLine == <<DataPrefix, <<"word", <<"Crawl error", " upstream">>>>>>
\* : keep-alive          (an SSE comment)
CommentLine == <<<<"word", <<": keep-alive">>>>>>
\* data: null
NullLine == <<DataPrefix, <<"null">>>>

LineKinds ==
    <<ThinkingLine, ContentLine, FutureLine, ErrorBareLine, ErrorLine,
      ErrorSentinelLine, EndLineA, EndLineB, EndNoDataLine, TruncatedLine,
      GarbageLine, CommentLine, NullLine>>

\* The stream text of a sequence of lines, each ended by a newline.
RECURSIVE StreamOf(_)
StreamOf(lines) ==
    IF lines = <<>> THEN <<>>
    ELSE Head(lines) \o <<NL>> \o StreamOf(Tail(lines))

\* The documented example: thinking, content, page_crawled, crawl_end.
ExampleStream == StreamOf(<<ThinkingLine, ContentLine, PageCrawledLine, EndLineA>>)

\* An error event in the middle of a stream, with and without the text
\* 'Crawl error' in what it raises.
ErrorMidStream == StreamOf(<<ThinkingLine, ErrorBareLine, ContentLine>>)
ServerErrorMidStream == StreamOf(<<ThinkingLine, ErrorLine, ContentLine>>)
\* Events after a crawl_end, a second crawl_end among them.
EndTwiceStream == StreamOf(<<EndLineA, FutureLine, EndLineB>>)

Scenarios == {ExampleStream, ErrorMidStream, ServerErrorMidStream, EndTwiceStream}

\* The streams the server may send: every sequence of at most MaxLines of
\* the lines above, and the scenarios.
ReplayStreams ==
    UNION {{StreamOf([i \in 1..n |-> LineKinds[f[i]]]) :
               f \in [1..n -> 1..Len(LineKinds)]} : n \in 0..MaxReplayLines}
        \cup Scenarios

Streams ==
    UNION {{StreamOf([i \in 1..n |-> LineKinds[f[i]]]) :
               f \in [1..n -> 1..Len(LineKinds)]} : n \in 0..MaxLines}
        \cup Scenarios

(* ------------------------------ the read loop -------------------------- *)

\* chunk.split('\n'): the text between newlines, the last piece included.
RECURSIVE Split(_)
Split(chunk) ==
    IF \A i \in 1..Len(chunk) : chunk[i][1] # "\n" THEN <<chunk>>
    ELSE LET i == CHOOSE k \in 1..Len(chunk) :
                      /\ chunk[k][1] = "\n"
                      /\ \A j \in 1..(k - 1) : chunk[j][1] # "\n"
         IN <<SubSeq(chunk, 1, i - 1)>> \o Split(SubSeq(chunk, i + 1, Len(chunk)))

\* line.startsWith('data: ')
StartsWithData(line) == line # <<>> /\ line[1] = DataPrefix

\* line.slice(6)
Slice6(line) == Tail(line)

\* The text the catch block looks for in the message of what it caught.
Sentinel == <<"Crawl error">>

(* The caller's onEvent, one of:                                           *)
(*   "undefined"     no handler was passed                                 *)
(*   "ok"            a function that returns                               *)
(*   "throws"        a function that throws Error('handler failed') on a   *)
(*                   content event                                         *)
(*   "throwsCrawl"   a function that throws Error('Crawl error in handler')*)
(*                   on a content event                                    *)
Handlers == {"undefined", "ok", "throws", "throwsCrawl"}

IsFunction(onEvent) == onEvent # "undefined"

HandlerThrows(onEvent, ev) ==
    onEvent \in {"throws", "throwsCrawl"} /\ IsStr(Get(ev, "type"), <<"content">>)

HandlerMessage(onEvent) ==
    IF onEvent = "throwsCrawl" THEN <<"Crawl error", " in handler">>
    ELSE <<"handler failed">>

\* What the try block of one data line leaves: the two variables of the loop
\* it may have written, and whether it threw and with what message.
Completed(fr, hc) ==
    [finalResult |-> fr, handlerCalls |-> hc, thrown |-> FALSE, message |-> <<>>]
Threw(fr, hc, msg) ==
    [finalResult |-> fr, handlerCalls |-> hc, thrown |-> TRUE, message |-> msg]

\* throw new Error(data.error || 'Crawl error')
ErrorEventMessage(data) ==
    IF Truthy(Get(data, "error")) THEN JSToString(Get(data, "error")) ELSE <<"Crawl error">>

\* Dispatch with a list of the event types that are forwarded: an event of
\* another type is dropped.
DispatchKnownTypes(data, fr, hc, onEvent) ==
    IF IsStr(Get(data, "type"), <<"error">>)
    THEN Threw(fr, hc, ErrorEventMessage(data))
    ELSE IF IsStr(Get(data, "type"), <<"crawl_end">>)
    THEN Completed(Get(data, "data"), hc)
    ELSE IF IsFunction(onEvent)
            /\ \E known \in {"page_crawled", "content", "thinking"} :
                   IsStr(Get(data, "type"), <<known>>)
    THEN IF HandlerThrows(onEvent, data)
         THEN Threw(fr, Append(hc, data), HandlerMessage(onEvent))
         ELSE Completed(fr, Append(hc, data))
    ELSE Completed(fr, hc)

\* Dispatch with 'if' in place of 'else if': a crawl_end event is captured
\* and forwarded as well.
DispatchForwardsEnd(data, fr, hc, onEvent) ==
    IF IsStr(Get(data, "type"), <<"error">>)
    THEN Threw(fr, hc, ErrorEventMessage(data))
    ELSE IF IsFunction(onEvent)
    THEN IF HandlerThrows(onEvent, data)
         THEN Threw(IF IsStr(Get(data, "type"), <<"crawl_end">>)
                    THEN Get(data, "data") ELSE fr,
                    Append(hc, data), HandlerMessage(onEvent))
         ELSE Completed(IF IsStr(Get(data, "type"), <<"crawl_end">>)
                        THEN Get(data, "data") ELSE fr,
                        Append(hc, data))
    ELSE Completed(IF IsStr(Get(data, "type"), <<"crawl_end">>)
                   THEN Get(data, "data") ELSE fr,
                   hc)

\* Dispatch with 'finalResult = finalResult || data.data': the first
\* crawl_end payload is kept.
DispatchFirstEndWins(data, fr, hc, onEvent) ==
    IF IsStr(Get(data, "type"), <<"error">>)
    THEN Threw(fr, hc, ErrorEventMessage(data))
    ELSE IF IsStr(Get(data, "type"), <<"crawl_end">>)
    THEN Completed(IF Truthy(fr) THEN fr ELSE Get(data, "data"), hc)
    ELSE IF IsFunction(onEvent)
    THEN IF HandlerThrows(onEvent, data)
         THEN Threw(fr, Append(hc, data), HandlerMessage(onEvent))
         ELSE Completed(fr, Append(hc, data))
    ELSE Completed(fr, hc)

\* Dispatch with a try block of its own around the call of onEvent, whose
\* catch ignores what the handler throws.
DispatchGuardsHandler(data, fr, hc, onEvent) ==
    IF IsStr(Get(data, "type"), <<"error">>)
    THEN Threw(fr, hc, ErrorEventMessage(data))
    ELSE IF IsStr(Get(data, "type"), <<"crawl_end">>)
    THEN Completed(Get(data, "data"), hc)
    ELSE IF IsFunction(onEvent)
    THEN Completed(fr, Append(hc, data))
    ELSE Completed(fr, hc)

\* The statements of the try block after the parse: an error event throws,
\* a crawl_end event is captured, any other value goes to the handler.
Dispatch(data, fr, hc, onEvent) ==
    IF IsStr(Get(data, "type"), <<"error">>)
    THEN Threw(fr, hc, ErrorEventMessage(data))
    ELSE IF IsStr(Get(data, "type"), <<"crawl_end">>)
    THEN Completed(Get(data, "data"), hc)
    ELSE IF IsFunction(onEvent)
    THEN IF HandlerThrows(onEvent, data)
         THEN Threw(fr, Append(hc, data), HandlerMessage(onEvent))
         ELSE Completed(fr, Append(hc, data))
    ELSE Completed(fr, hc)

\* The try block given what JSON.parse came to: its SyntaxError is thrown
\* on, data.type of null throws a TypeError.
AfterParse(p, fr, hc, onEvent) ==
    IF ~p.ok THEN Threw(fr, hc, p.message)
    ELSE IF p.val.t = "null"
    THEN Threw(fr, hc, <<"Cannot read properties of null (reading 'type')">>)
    ELSE Dispatch(p.val, fr, hc, onEvent)

\* The body of the try block for one data line.
TryBlock(payload, fr, hc, onEvent, quotes) ==
    AfterParse(JSONParse(payload, quotes), fr, hc, onEvent)

\* catch (parseError): rethrown when the message includes 'Crawl error',
\* ignored otherwise.
CatchRethrows(message) == Includes(message, Sentinel)

\* The catch block around what the try block left.
Catch(r) ==
    IF r.thrown /\ ~CatchRethrows(r.message)
    THEN Completed(r.finalResult, r.handlerCalls)
    ELSE r

\* One iteration of 'for (const line of lines)'.
ProcessLine(line, fr, hc, onEvent, quotes) ==
    IF ~StartsWithData(line) THEN Completed(fr, hc)
    ELSE Catch(TryBlock(Slice6(line), fr, hc, onEvent, quotes))

RECURSIVE ForLines(_, _, _, _, _)

\* After an iteration that left r: a throw ends the loop, otherwise the
\* loop goes on with the lines that are left.
Continue(r, lines, onEvent, quotes) ==
    IF r.thrown THEN r
    ELSE ForLines(lines, r.finalResult, r.handlerCalls, onEvent, quotes)

\* The for loop over the lines of one chunk: it ends at the first line
\* that throws.
ForLines(lines, fr, hc, onEvent, quotes) ==
    IF lines = <<>> THEN Completed(fr, hc)
    ELSE Continue(ProcessLine(Head(lines), fr, hc, onEvent, quotes),
                  Tail(lines), onEvent, quotes)

\* The body of the while loop for one chunk read.
ProcessChunk(chunk, fr, hc, onEvent, quotes) ==
    ForLines(Split(chunk), fr, hc, onEvent, quotes)

\* { success: true, time_took: 0 }
DefaultResult ==
    JObj(<<<<<<"success">>, JBool(TRUE)>>, <<<<"time_took">>, JNum(0)>>>>)

\* Reduce without the default: return finalResult
ReduceNoDefault(fr) == fr

\* return finalResult || { success: true, time_took: 0 }
Reduce(fr) == IF Truthy(fr) THEN fr ELSE DefaultResult

(* ------------------------------ the client ----------------------------- *)

\* The configurations a client is constructed with: the two credentials,
\* and the base URL left out or given with a slash at its end.
Configs ==
    {[clientId |-> JStr(<<"client-1">>), clientSecret |-> JStr(<<"secret-1">>),
      apiURL |-> u] : u \in {JUndefined, JStr(<<"https://search.example", "/">>)}}

\* .replace(/\/$/, '')
StripSlash(s) ==
    IF s # <<>> /\ s[Len(s)] = "/" THEN SubSeq(s, 1, Len(s) - 1) ELSE s

\* constructor(config), for a config that has both credentials
Construct(config) ==
    [clientId |-> config.clientId.s,
     clientSecret |-> config.clientSecret.s,
     apiURL |-> StripSlash(IF Truthy(config.apiURL) THEN config.apiURL.s
                           ELSE <<"https://api.oblien.com">>)]

Clients == {Construct(config) : config \in Configs}

\* The client of a config without apiURL.
DefaultClient ==
    Construct([clientId |-> JStr(<<"client-1">>), clientSecret |-> JStr(<<"secret-1">>),
               apiURL |-> JUndefined])

\* getAuthHeaders()
GetAuthHeaders ==
    <<<<"Content-Type", <<"application/json">>>>,
      <<"X-Client-ID", client.clientId>>,
      <<"X-Client-Secret", client.clientSecret>>>>

\* `${this.apiURL}<path>`
Endpoint(path) == client.apiURL \o <<path>>

(* ------------------------------ the request ---------------------------- *)

\* The option fields a caller may pass; a caller passes a subset of them.
\* type, thinking, allow_thinking_callback and stream_text have defaults.
DefaultOptions ==
    <<<<"type", "deep">>, <<"thinking", "true">>,
      <<"allow_thinking_callback", "true">>, <<"stream_text", "true">>>>

HasField(o, k) == \E i \in 1..Len(o) : o[i][1] = k

\* { type: 'deep', thinking: true, allow_thinking_callback: true,
\*   stream_text: true, ...options }: a default keeps its place and takes the
\* caller's value, the caller's other fields follow in the caller's order.
RECURSIVE Spread(_, _)
Spread(base, o) ==
    IF o = <<>> THEN base
    ELSE LET k == Head(o)[1]
             next == IF HasField(base, k)
                     THEN [i \in 1..Len(base) |->
                              IF base[i][1] = k THEN Head(o) ELSE base[i]]
                     ELSE Append(base, Head(o))
         IN Spread(next, Tail(o))

\* MergeOptions with the defaults written after the spread of the
\* caller's options: { ...options, type: 'deep', ... }
MergeOptionsDefaultsLast(options) == Spread(options, DefaultOptions)

MergeOptions(options) == Spread(DefaultOptions, options)

OptionInputs ==
    {<<>>, <<<<"type", "shallow">>>>, <<<<"maxPages", "10">>, <<"thinking", "false">>>>}

\* The instructions a caller may pass: a string, the empty string, nothing.
InstructionInputs ==
    {JStr(<<"Crawl https://example.com/blog">>), JStr(<<>>), JUndefined}

\* !instructions || typeof instructions !== 'string'
BadInstructions(instructions) == ~Truthy(instructions) \/ instructions.t # "str"

NoRequest == [path |-> "none"]

CrawlRequest(instructions, options) ==
    [path |-> "/search/crawl", method |-> "POST",
     url |-> Endpoint("/search/crawl"), headers |-> GetAuthHeaders,
     instructions |-> instructions, options |-> MergeOptions(options)]

\* {"error":"Quota exceeded"}
ErrorBody == <<LB>> \o StrMember("error", "Quota exceeded") \o <<RB>>
\* a body that is no JSON, such as an HTML error page
HtmlBody == <<<<"word", <<"<html>">>>>>>

\* The responses that are not ok.
FailedResponses ==
    {[status |-> "500", statusText |-> st, body |-> b] :
        st \in {<<"Internal Server Error">>, <<>>}, b \in {ErrorBody, HtmlBody, <<LB, RB>>}}

\* error.error || `Crawl request failed: ${response.status}`
MessageOr(err, status) ==
    IF Truthy(err) THEN JSToString(err) ELSE <<"Crawl request failed: ", status>>

\* await response.json().catch(() => ({ error: response.statusText })), .error
ErrorOfBody(p, statusText) == IF p.ok THEN Get(p.val, "error") ELSE JStr(statusText)

\* FailureMessage without a look at the body of the response.
FailureMessageOfStatus(resp, quotes) == <<"Crawl request failed: ", resp.status>>

\* const error = await response.json().catch(() => ({ error: response.statusText }));
\* throw new Error(error.error || `Crawl request failed: ${response.status}`)
FailureMessage(resp, quotes) ==
    MessageOr(ErrorOfBody(JSONParse(resp.body, quotes), resp.statusText), resp.status)

(* --------------------------- search and extract ------------------------ *)

\* A parameter with a default: the default stands in for undefined.
DefaultTo(v, d) == IF v.t = "undefined" THEN d ELSE v

QueryA == JStr(<<"what is a state machine">>)
QueryB == JStr(<<"tla+ tutorial">>)

\* What a caller may pass as queries: nothing, null, a string, lists.
QueryInputs ==
    {JUndefined, JNull, QueryA, JArr(<<>>), JArr(<<QueryA>>),
     JArr(<<QueryA, QueryB>>), JArr(<<QueryB, QueryA>>), JArr(<<QueryA, QueryA>>)}

IncludeAnswersInputs == {JUndefined, JBool(TRUE)}

\* The options of search and of extract are sent as the caller gave them.
FreeOptionInputs == {JUndefined, JObj(<<<<<<"maxResults">>, JNum(5)>>>>)}

\* !queries || !Array.isArray(queries) || queries.length === 0
BadQueries(queries) ==
    ~Truthy(queries) \/ queries.t # "arr" \/ Len(queries.a) = 0

\* SearchRequest with one request for each query: the body of the first
\* request holds the first query only.
SearchRequestFirstQuery(queries, includeAnswers, options) ==
    [path |-> "/search", method |-> "POST",
     url |-> Endpoint("/search"), headers |-> GetAuthHeaders,
     body |-> Stringify(JObj(<<<<<<"queries">>, JArr(<<queries.a[1]>>)>>,
                               <<<<"includeAnswers">>, includeAnswers>>,
                               <<<<"options">>, options>>>>))]

\* fetch(`${this.apiURL}/search`, { method: 'POST', headers, body:
\* JSON.stringify({ queries, includeAnswers, options }) })
SearchRequest(queries, includeAnswers, options) ==
    [path |-> "/search", method |-> "POST",
     url |-> Endpoint("/search"), headers |-> GetAuthHeaders,
     body |-> Stringify(JObj(<<<<<<"queries">>, queries>>,
                               <<<<"includeAnswers">>, includeAnswers>>,
                               <<<<"options">>, options>>>>))]

\* error.error || `Search request failed: ${response.status}`
SearchMessageOr(err, status) ==
    IF Truthy(err) THEN JSToString(err) ELSE <<"Search request failed: ", status>>

SearchFailureMessage(resp, quotes) ==
    SearchMessageOr(ErrorOfBody(JSONParse(resp.body, quotes), resp.statusText),
                    resp.status)

\* The extraction instructions and the pages a caller may list, an entry
\* that is null among them.
Details1 == JArr(<<JStr(<<"Extract title">>)>>)
PageA == JObj(<<<<<<"url">>, JStr(<<"https://a.example">>)>>, <<<<"details">>, Details1>>>>)
PageB ==
    JObj(<<<<<<"url">>, JStr(<<"https://b.example">>)>>,
           <<<<"details">>, JArr(<<JStr(<<"Extract title">>), JStr(<<"Extract price">>)>>)>>,
           <<<<"summaryLevel">>, JStr(<<"medium">>)>>>>)

\* The two pages above, then a page without url, with an empty url, without
\* details, with an empty list of details, with details that are a string,
\* an empty object, and null.
PageKinds ==
    <<PageA, PageB,
      JObj(<<<<<<"details">>, Details1>>>>),
      JObj(<<<<<<"url">>, JStr(<<>>)>>, <<<<"details">>, Details1>>>>),
      JObj(<<<<<<"url">>, JStr(<<"https://a.example">>)>>>>),
      JObj(<<<<<<"url">>, JStr(<<"https://a.example">>)>>, <<<<"details">>, JArr(<<>>)>>>>),
      JObj(<<<<<<"url">>, JStr(<<"https://a.example">>)>>,
             <<<<"details">>, JStr(<<"Extract title">>)>>>>),
      JObj(<<>>),
      JNull>>

\* The most pages in a list.
MaxPages == 2

\* What a caller may pass as pages: nothing, null, a string, lists.
PagesInputs ==
    {JUndefined, JNull, JStr(<<"https://a.example">>)}
        \cup UNION {{JArr([i \in 1..n |-> PageKinds[f[i]]]) :
                        f \in [1..n -> 1..Len(PageKinds)]} : n \in 0..MaxPages}

\* !pages || !Array.isArray(pages) || pages.length === 0
BadPages(pages) == ~Truthy(pages) \/ pages.t # "arr" \/ Len(pages.a) = 0

\* !page.details || !Array.isArray(page.details) || page.details.length === 0
BadDetails(details) ==
    ~Truthy(details) \/ details.t # "arr" \/ Len(details.a) = 0

NoThrow == [thrown |-> FALSE]
Throw(message) == [thrown |-> TRUE, message |-> message]

\* The for loop of extract over the pages from place i on (the index of
\* the source is i - 1): what the first entry that throws throws.  Reading
\* page.url of an entry that is null or undefined throws a TypeError.
RECURSIVE ValidatePages(_, _)
ValidatePages(pages, i) ==
    IF i > Len(pages) THEN NoThrow
    ELSE IF pages[i].t \in {"null", "undefined"}
    THEN Throw(<<"Cannot read properties of ", pages[i].t, " (reading 'url')">>)
    ELSE IF ~Truthy(Get(pages[i], "url"))
    THEN Throw(<<"Page at index ", ToString(i - 1), " is missing required field: ",
                 "url">>)
    ELSE IF BadDetails(Get(pages[i], "details"))
    THEN Throw(<<"Page at index ", ToString(i - 1), " is missing required field: ",
                 "details", " (must be non-empty array)">>)
    ELSE ValidatePages(pages, i + 1)

\* fetch(`${this.apiURL}/search/extract`, { method: 'POST', headers, body:
\* JSON.stringify({ pages, options }) })
ExtractRequest(pages, options) ==
    [path |-> "/search/extract", method |-> "POST",
     url |-> Endpoint("/search/extract"), headers |-> GetAuthHeaders,
     body |-> Stringify(JObj(<<<<<<"pages">>, pages>>, <<<<"options">>, options>>>>))]

\* error.error || `Extract request failed: ${response.status}`
ExtractMessageOr(err, status) ==
    IF Truthy(err) THEN JSToString(err) ELSE <<"Extract request failed: ", status>>

ExtractFailureMessage(resp, quotes) ==
    ExtractMessageOr(ErrorOfBody(JSONParse(resp.body, quotes), resp.statusText),
                     resp.status)

\* The bodies of the responses that are ok: a result, and a body that is
\* no JSON.
OkBodies == {ResultText(TRUE, 42), <<LB, RB>>, HtmlBody}

(* ------------------------------ the calls ------------------------------ *)

IdleCall ==
    [pc |-> "idle", onEvent |-> "undefined", inFlight |-> NoRequest,
     requestCount |-> 0, stream |-> <<>>, rest |-> <<>>, aligned |-> TRUE,
     finalResult |-> JNull, handlerCalls |-> <<>>, locked |-> FALSE,
     acquires |-> 0, releases |-> 0, result |-> JUndefined, error |-> <<>>]

InitCalls(ids) ==
    /\ calls = [c \in ids |-> IdleCall]
    /\ engineQuotesSource \in BOOLEAN

\* crawl(instructions, onEvent, options) up to its first await: the check of
\* the instructions and the fetch.
CrawlStep(c, instructions, onEvent, options) ==
    /\ calls[c].pc = "idle"
    /\ IF BadInstructions(instructions)
       THEN calls' = [calls EXCEPT ![c].pc = "rejected",
                        ![c].error = <<"instructions is required and must be a string">>]
       ELSE calls' = [calls EXCEPT ![c].pc = "fetching",
                        ![c].onEvent = onEvent,
                        ![c].inFlight = CrawlRequest(instructions, options),
                        ![c].requestCount = @ + 1]

\* The response is not ok: the call rejects with the message of the body.
FetchFailedStep(c, resp) ==
    /\ calls[c].pc = "fetching"
    /\ calls' = [calls EXCEPT ![c].pc = "rejected",
                    ![c].inFlight = NoRequest,
                    ![c].error = FailureMessage(resp, engineQuotesSource)]

\* FetchOkStep with the unread text of the last call kept in front of the
\* new stream, as a client-wide buffer that is never cleared would.
FetchOkStepKeepsRest(c, stream) ==
    /\ calls[c].pc = "fetching"
    /\ calls' = [calls EXCEPT ![c].pc = "reading",
                    ![c].inFlight = NoRequest,
                    ![c].stream = stream,
                    ![c].rest = calls[c].rest \o stream,
                    ![c].finalResult = JNull,
                    ![c].acquires = @ + 1,
                    ![c].locked = TRUE]

\* The response is ok: response.body.getReader() locks the stream, and the
\* loop awaits its first read.
FetchOkStep(c, stream) ==
    /\ calls[c].pc = "fetching"
    /\ calls' = [calls EXCEPT ![c].pc = "reading",
                    ![c].inFlight = NoRequest,
                    ![c].stream = stream,
                    ![c].rest = stream,
                    ![c].finalResult = JNull,
                    ![c].acquires = @ + 1,
                    ![c].locked = TRUE]

\* AfterChunk with reader.releaseLock() in the crawl_end branch as well:
\* the lock is released when the first payload is captured, and the loop
\* goes on reading.
AfterChunkReleasesAtEnd(call, n, r) ==
    [call EXCEPT !.rest = SubSeq(call.rest, n + 1, Len(call.rest)),
                 !.aligned = call.aligned /\ call.rest[n][1] = "\n",
                 !.finalResult = r.finalResult,
                 !.handlerCalls = r.handlerCalls,
                 !.pc = IF r.thrown THEN "rejected" ELSE "reading",
                 !.error = IF r.thrown THEN r.message ELSE call.error,
                 !.locked = IF r.thrown \/ (call.finalResult = JNull /\ r.finalResult # JNull)
                            THEN FALSE ELSE call.locked,
                 !.releases = (IF r.thrown THEN call.releases + 1 ELSE call.releases)
                     + (IF call.finalResult = JNull /\ r.finalResult # JNull THEN 1 ELSE 0)]

\* The call after a read of n lexemes whose processing left r.
AfterChunk(call, n, r) ==
    [call EXCEPT !.rest = SubSeq(call.rest, n + 1, Len(call.rest)),
                 !.aligned = call.aligned /\ call.rest[n][1] = "\n",
                 !.finalResult = r.finalResult,
                 !.handlerCalls = r.handlerCalls,
                 !.pc = IF r.thrown THEN "rejected" ELSE "reading",
                 !.error = IF r.thrown THEN r.message ELSE call.error,
                 !.locked = IF r.thrown THEN FALSE ELSE call.locked,
                 !.releases = IF r.thrown THEN call.releases + 1 ELSE call.releases]

\* The finalResult of a client that keeps it in a field of its own instead
\* of a local of the call: what another call has captured is what this call
\* reads.
SharedResult(c) ==
    IF \E d \in DOMAIN calls \ {c} : Truthy(calls[d].finalResult)
    THEN calls[CHOOSE d \in DOMAIN calls \ {c} : Truthy(calls[d].finalResult)].finalResult
    ELSE calls[c].finalResult

\* ReadChunkStep on a client whose finalResult is shared by its calls.
ReadChunkStepSharedResult(c, n) ==
    /\ calls[c].pc = "reading"
    /\ n \in 1..Len(calls[c].rest)
    /\ calls' = [calls EXCEPT ![c] =
           AfterChunk(calls[c], n,
                      ProcessChunk(SubSeq(calls[c].rest, 1, n), SharedResult(c),
                                   calls[c].handlerCalls, calls[c].onEvent,
                                   engineQuotesSource))]

\* reader.read() resolves with the next n lexemes of the stream: the chunk
\* is decoded, split and its lines are processed.  A throw leaves the loop
\* through the finally block, which releases the lock, and rejects the call.
ReadChunkStep(c, n) ==
    /\ calls[c].pc = "reading"
    /\ n \in 1..Len(calls[c].rest)
    /\ calls' = [calls EXCEPT ![c] =
           AfterChunk(calls[c], n,
                      ProcessChunk(SubSeq(calls[c].rest, 1, n), calls[c].finalResult,
                                   calls[c].handlerCalls, calls[c].onEvent,
                                   engineQuotesSource))]

\* reader.read() resolves with done: the loop breaks, the finally block
\* releases the lock and the call resolves.
ReadDoneStep(c) ==
    /\ calls[c].pc = "reading"
    /\ calls[c].rest = <<>>
    /\ calls' = [calls EXCEPT ![c].pc = "resolved",
                    ![c].locked = FALSE,
                    ![c].releases = @ + 1,
                    ![c].result = Reduce(calls[c].finalResult)]

\* The error reader.read() rejects with.
NetworkError == <<"network error">>

\* ReadFailStep with releaseLock() after the loop instead of in a finally
\* block: a read that rejects leaves the function past it.
ReadFailStepNoFinally(c) ==
    /\ calls[c].pc = "reading"
    /\ calls' = [calls EXCEPT ![c].pc = "rejected",
                    ![c].error = NetworkError]

\* reader.read() rejects (the connection broke): the finally block releases
\* the lock and the call rejects with the error of the read.
ReadFailStep(c) ==
    /\ calls[c].pc = "reading"
    /\ calls' = [calls EXCEPT ![c].pc = "rejected",
                    ![c].locked = FALSE,
                    ![c].releases = @ + 1,
                    ![c].error = NetworkError]

\* search(queries, includeAnswers, options) up to its await: the check of
\* the queries and the fetch.
SearchStep(c, queries, includeAnswers, options) ==
    /\ calls[c].pc = "idle"
    /\ IF BadQueries(queries)
       THEN calls' = [calls EXCEPT ![c].pc = "rejected",
                        ![c].error = <<"queries must be a non-empty array">>]
       ELSE calls' = [calls EXCEPT ![c].pc = "searching",
                        ![c].inFlight =
                            SearchRequest(queries, DefaultTo(includeAnswers, JBool(FALSE)),
                                          DefaultTo(options, JObj(<<>>))),
                        ![c].requestCount = @ + 1]

\* The response to search is not ok.
SearchFailedStep(c, resp) ==
    /\ calls[c].pc = "searching"
    /\ calls' = [calls EXCEPT ![c].pc = "rejected",
                    ![c].inFlight = NoRequest,
                    ![c].error = SearchFailureMessage(resp, engineQuotesSource)]

\* return response.json(): the call resolves to the parsed body, or rejects
\* with the SyntaxError of the parse.
Settled(call, p) ==
    IF p.ok
    THEN [call EXCEPT !.pc = "resolved", !.inFlight = NoRequest, !.result = p.val]
    ELSE [call EXCEPT !.pc = "rejected", !.inFlight = NoRequest, !.error = p.message]

\* The response to search is ok.
SearchOkStep(c, body) ==
    /\ calls[c].pc = "searching"
    /\ calls' = [calls EXCEPT ![c] = Settled(calls[c], JSONParse(body, engineQuotesSource))]

\* extract after the check of pages, given what the loop over the entries
\* came to: its throw rejects the call, otherwise the request is sent.
AfterValidation(call, v, pages, options) ==
    IF v.thrown
    THEN [call EXCEPT !.pc = "rejected", !.error = v.message]
    ELSE [call EXCEPT !.pc = "extracting",
                      !.inFlight = ExtractRequest(pages, DefaultTo(options, JObj(<<>>))),
                      !.requestCount = @ + 1]

\* ExtractStep with the loop over the entries after the fetch: the request
\* of a list with an entry that fails the check has been sent.
ExtractStepChecksAfter(c, pages, options) ==
    /\ calls[c].pc = "idle"
    /\ IF BadPages(pages)
       THEN calls' = [calls EXCEPT ![c].pc = "rejected",
                        ![c].error = <<"pages must be a non-empty array">>]
       ELSE calls' = [calls EXCEPT ![c] =
                        [AfterValidation(calls[c], ValidatePages(pages.a, 1), pages, options)
                            EXCEPT !.requestCount = 1]]

\* extract(pages, options) up to its await: the checks and the fetch.
ExtractStep(c, pages, options) ==
    /\ calls[c].pc = "idle"
    /\ IF BadPages(pages)
       THEN calls' = [calls EXCEPT ![c].pc = "rejected",
                        ![c].error = <<"pages must be a non-empty array">>]
       ELSE calls' = [calls EXCEPT ![c] =
                        AfterValidation(calls[c], ValidatePages(pages.a, 1), pages, options)]

\* The response to extract is not ok.
ExtractFailedStep(c, resp) ==
    /\ calls[c].pc = "extracting"
    /\ calls' = [calls EXCEPT ![c].pc = "rejected",
                    ![c].inFlight = NoRequest,
                    ![c].error = ExtractFailureMessage(resp, engineQuotesSource)]

\* The response to extract is ok.
ExtractOkStep(c, body) ==
    /\ calls[c].pc = "extracting"
    /\ calls' = [calls EXCEPT ![c] = Settled(calls[c], JSONParse(body, engineQuotesSource))]

(* --------------------- one crawl call on one client -------------------- *)

\* No call is being repeated.
NoReplay == [phase |-> 0]

Init == InitCalls({1}) /\ replay = NoReplay /\ client = DefaultClient

Crawl ==
    /\ \E i \in InstructionInputs, h \in Handlers, o \in OptionInputs :
           CrawlStep(1, i, h, o)
    /\ UNCHANGED <<engineQuotesSource, replay, client>>

FetchFailed ==
    /\ \E resp \in FailedResponses : FetchFailedStep(1, resp)
    /\ UNCHANGED <<engineQuotesSource, replay, client>>

FetchOk ==
    /\ \E s \in Streams : FetchOkStep(1, s)
    /\ UNCHANGED <<engineQuotesSource, replay, client>>

ReadChunk ==
    /\ \E n \in 1..Len(calls[1].rest) : ReadChunkStep(1, n)
    /\ UNCHANGED <<engineQuotesSource, replay, client>>

ReadDone == ReadDoneStep(1) /\ UNCHANGED <<engineQuotesSource, replay, client>>

ReadFail == ReadFailStep(1) /\ UNCHANGED <<engineQuotesSource, replay, client>>

Next == Crawl \/ FetchFailed \/ FetchOk \/ ReadChunk \/ ReadDone \/ ReadFail

Spec == Init /\ [][Next]_vars

(* ------------------ a call and the call that repeats it ---------------- *)

(* A second crawl on the same client is given the handler, the stream and  *)
(* the chunk reads of the first.  It starts from what the first call left: *)
(* only what crawl itself initialises is fresh.  replay.log holds the      *)
(* lengths of the chunks the first call read, 0 for a read that rejected;  *)
(* replay.todo the reads the second call has still to be given.            *)

ValidInstructions == JStr(<<"Crawl https://example.com/blog">>)

Outcome(c) ==
    [pc |-> calls[c].pc, handlerCalls |-> calls[c].handlerCalls,
     result |-> calls[c].result, error |-> calls[c].error]

InitReplay ==
    /\ InitCalls({1})
    /\ replay = [phase |-> 1, log |-> <<>>]
    /\ client = DefaultClient

\* A new invocation: a new promise and a new record of its handler calls.
\* The locals keep what the last invocation left until crawl assigns them.
Reenter(call) ==
    [call EXCEPT !.pc = "idle", !.handlerCalls = <<>>, !.result = JUndefined,
                 !.error = <<>>, !.aligned = TRUE, !.acquires = 0, !.releases = 0,
                 !.requestCount = 0]

FirstCrawl ==
    /\ replay.phase = 1
    /\ \E h \in Handlers, o \in OptionInputs : CrawlStep(1, ValidInstructions, h, o)
    /\ UNCHANGED <<engineQuotesSource, replay, client>>

FirstFetchOk ==
    /\ replay.phase = 1
    /\ \E s \in ReplayStreams : FetchOkStep(1, s)
    /\ UNCHANGED <<engineQuotesSource, replay, client>>

FirstReadChunk ==
    /\ replay.phase = 1
    /\ \E n \in 1..Len(calls[1].rest) :
          /\ Len(replay.log) + 1 < MaxChunks \/ n = Len(calls[1].rest)
          /\ ReadChunkStep(1, n)
          /\ replay' = [replay EXCEPT !.log = Append(@, n)]
    /\ UNCHANGED <<engineQuotesSource, client>>

FirstReadDone ==
    /\ replay.phase = 1
    /\ ReadDoneStep(1)
    /\ UNCHANGED <<engineQuotesSource, replay, client>>

FirstReadFail ==
    /\ replay.phase = 1
    /\ ReadFailStep(1)
    /\ replay' = [replay EXCEPT !.log = Append(@, 0)]
    /\ UNCHANGED <<engineQuotesSource, client>>

\* The first call has ended: the caller calls crawl again.
StartReplay ==
    /\ replay.phase = 1
    /\ calls[1].pc \in {"resolved", "rejected"}
    /\ calls[1].acquires = 1
    /\ replay' = [phase |-> 2, log |-> replay.log, todo |-> replay.log,
                  stream |-> calls[1].stream, onEvent |-> calls[1].onEvent,
                  first |-> Outcome(1)]
    /\ calls' = [calls EXCEPT ![1] = Reenter(calls[1])]
    /\ UNCHANGED <<engineQuotesSource, client>>

SecondCrawl ==
    /\ replay.phase = 2
    /\ \E o \in OptionInputs : CrawlStep(1, ValidInstructions, replay.onEvent, o)
    /\ UNCHANGED <<engineQuotesSource, replay, client>>

SecondFetchOk ==
    /\ replay.phase = 2
    /\ FetchOkStep(1, replay.stream)
    /\ UNCHANGED <<engineQuotesSource, replay, client>>

SecondReadChunk ==
    /\ replay.phase = 2
    /\ replay.todo # <<>>
    /\ Head(replay.todo) > 0
    /\ ReadChunkStep(1, Head(replay.todo))
    /\ replay' = [replay EXCEPT !.todo = Tail(@)]
    /\ UNCHANGED <<engineQuotesSource, client>>

SecondReadFail ==
    /\ replay.phase = 2
    /\ replay.todo # <<>>
    /\ Head(replay.todo) = 0
    /\ ReadFailStep(1)
    /\ replay' = [replay EXCEPT !.todo = Tail(@)]
    /\ UNCHANGED <<engineQuotesSource, client>>

SecondReadDone ==
    /\ replay.phase = 2
    /\ replay.todo = <<>>
    /\ ReadDoneStep(1)
    /\ UNCHANGED <<engineQuotesSource, replay, client>>

NextReplay ==
    \/ FirstCrawl \/ FirstFetchOk \/ FirstReadChunk \/ FirstReadDone \/ FirstReadFail
    \/ StartReplay
    \/ SecondCrawl \/ SecondFetchOk \/ SecondReadChunk \/ SecondReadFail \/ SecondReadDone

SpecReplay == InitReplay /\ [][NextReplay]_vars

(* ----------------------- two crawl calls together ---------------------- *)

(* Two calls of crawl on one client, each with a handler and a stream of   *)
(* its own.  A call runs from one await to the next without interruption,  *)
(* so the calls interleave at the fetch and at each read; the handler is   *)
(* called within the step of the read.  replay.alone[c] is what the read   *)
(* loop comes to on the chunks call c has read, computed from these chunks *)
(* and the handler of c alone.                                             *)

CallIds == {1, 2}

ConcurrentStreams == {StreamOf(<<ContentLine, EndLineB>>), StreamOf(<<ThinkingLine>>)}

ConcurrentHandlers == {"ok", "throwsCrawl"}

InitConcurrent ==
    /\ InitCalls(CallIds)
    /\ replay = [phase |-> 0, alone |-> [c \in CallIds |-> Completed(JNull, <<>>)]]
    /\ client = DefaultClient

ConcurrentCrawl ==
    /\ \E c \in CallIds, h \in ConcurrentHandlers :
           CrawlStep(c, ValidInstructions, h, <<>>)
    /\ UNCHANGED <<engineQuotesSource, replay, client>>

ConcurrentFetchOk ==
    /\ \E c \in CallIds, s \in ConcurrentStreams : FetchOkStep(c, s)
    /\ UNCHANGED <<engineQuotesSource, replay, client>>

ConcurrentReadChunk ==
    /\ \E c \in CallIds :
          \E n \in 1..Len(calls[c].rest) :
             /\ ReadChunkStep(c, n)
             /\ replay' = [replay EXCEPT !.alone[c] =
                              ProcessChunk(SubSeq(calls[c].rest, 1, n), @.finalResult,
                                           @.handlerCalls, calls[c].onEvent,
                                           engineQuotesSource)]
    /\ UNCHANGED <<engineQuotesSource, client>>

ConcurrentReadDone ==
    /\ \E c \in CallIds : ReadDoneStep(c)
    /\ UNCHANGED <<engineQuotesSource, replay, client>>

ConcurrentReadFail ==
    /\ \E c \in CallIds : ReadFailStep(c)
    /\ UNCHANGED <<engineQuotesSource, replay, client>>

NextConcurrent ==
    \/ ConcurrentCrawl \/ ConcurrentFetchOk \/ ConcurrentReadChunk
    \/ ConcurrentReadDone \/ ConcurrentReadFail

SpecConcurrent == InitConcurrent /\ [][NextConcurrent]_vars

(* ------------------ one call of any of the operations ------------------ *)

InitOperations == InitCalls({1}) /\ replay = NoReplay /\ client \in Clients

Search ==
    /\ \E q \in QueryInputs, ia \in IncludeAnswersInputs, o \in FreeOptionInputs :
           SearchStep(1, q, ia, o)
    /\ UNCHANGED <<engineQuotesSource, replay, client>>

SearchFailed ==
    /\ \E resp \in FailedResponses : SearchFailedStep(1, resp)
    /\ UNCHANGED <<engineQuotesSource, replay, client>>

SearchOk ==
    /\ \E body \in OkBodies : SearchOkStep(1, body)
    /\ UNCHANGED <<engineQuotesSource, replay, client>>

Extract ==
    /\ \E p \in PagesInputs, o \in FreeOptionInputs : ExtractStep(1, p, o)
    /\ UNCHANGED <<engineQuotesSource, replay, client>>

ExtractFailed ==
    /\ \E resp \in FailedResponses : ExtractFailedStep(1, resp)
    /\ UNCHANGED <<engineQuotesSource, replay, client>>

ExtractOk ==
    /\ \E body \in OkBodies : ExtractOkStep(1, body)
    /\ UNCHANGED <<engineQuotesSource, replay, client>>

\* The stream of a crawl among the other operations is a short one.
CrawlFetchOk ==
    /\ \E s \in ReplayStreams : FetchOkStep(1, s)
    /\ UNCHANGED <<engineQuotesSource, replay, client>>

NextOperations ==
    \/ Search \/ SearchFailed \/ SearchOk
    \/ Extract \/ ExtractFailed \/ ExtractOk
    \/ Crawl \/ FetchFailed \/ CrawlFetchOk \/ ReadChunk \/ ReadDone \/ ReadFail

SpecOperations == InitOperations /\ [][NextOperations]_vars

(* ------------------------- what the stream holds ----------------------- *)

\* A line that carries an event: a data line whose payload is a JSON object.
IsEventLine(line) ==
    /\ StartsWithData(line)
    /\ LET p == JSONParse(Slice6(line), FALSE) IN p.ok /\ p.val.t = "obj"

\* A data line whose payload is no JSON.
IsMalformedLine(line) ==
    StartsWithData(line) /\ ~JSONParse(Slice6(line), FALSE).ok

EventOf(line) == JSONParse(Slice6(line), FALSE).val

\* The events of a text, in the order of their lines.
EventsOf(text) ==
    LET ls == SelectSeq(Split(text), IsEventLine)
    IN [i \in 1..Len(ls) |-> EventOf(ls[i])]

HasType(ev, type) == IsStr(Get(ev, "type"), <<type>>)
IsErrorEvent(ev) == HasType(ev, "error")
IsEndEvent(ev) == HasType(ev, "crawl_end")
Forwardable(ev) == ~IsErrorEvent(ev) /\ ~IsEndEvent(ev)

IsPrefix(a, b) == Len(a) <= Len(b) /\ SubSeq(b, 1, Len(a)) = a

Terminal(c) == calls[c].pc \in {"resolved", "rejected"}

\* A step of call 1 that read a chunk, and the chunk it read.
IsReadStep == calls[1].pc = "reading" /\ Len(calls'[1].rest) < Len(calls[1].rest)
Consumed == SubSeq(calls[1].rest, 1, Len(calls[1].rest) - Len(calls'[1].rest))

(* -------------------------------- claims ------------------------------- *)

\* C1: a chunk whose first line is an event of type error ends the read
\* loop at once: the call rejects, and with the event's error field as the
\* message when the event has one, whatever that field says.
C1_ErrorEventRaises ==
    [][IsReadStep =>
          LET first == Head(Split(Consumed))
          IN (IsEventLine(first) /\ IsErrorEvent(EventOf(first))) =>
                /\ calls'[1].pc = "rejected"
                /\ LET e == Get(EventOf(first), "error")
                   IN (e.t = "str" /\ e.s # <<>>) => calls'[1].error = e.s]_vars

PayloadOf(ev) == Get(ev, "data")

\* {success: <flag>, time_took: <n>}
CrawlResult(flag, n) ==
    JObj(<<<<<<"success">>, JBool(flag)>>, <<<<"time_took">>, JNum(n)>>>>)

ReadFailed(c) == calls[c].pc = "rejected" /\ calls[c].error = NetworkError

\* The place of the first error event among events, 0 when there is none.
FirstError(evs) ==
    IF \E i \in 1..Len(evs) : IsErrorEvent(evs[i])
    THEN CHOOSE i \in 1..Len(evs) :
             IsErrorEvent(evs[i]) /\ \A j \in 1..(i - 1) : ~IsErrorEvent(evs[j])
    ELSE 0

\* C4: a call with a handler that returns, whose stream of well-formed
\* lines holds an error event before any crawl_end and was read line by line
\* until the call ended, has rejected, and the handler was called for
\* exactly the forwardable events before the first error event.
C4_ErrorEndsDelivery ==
    LET evs == EventsOf(calls[1].stream)
        k == FirstError(evs)
    IN (/\ Terminal(1) /\ ~ReadFailed(1)
        /\ calls[1].acquires = 1
        /\ calls[1].aligned
        /\ calls[1].onEvent = "ok"
        /\ \A i \in 1..Len(Split(calls[1].stream)) :
               ~IsMalformedLine(Split(calls[1].stream)[i])
        /\ k > 0
        /\ \A j \in 1..(k - 1) : ~IsEndEvent(evs[j]))
       => /\ calls[1].pc = "rejected"
          /\ calls[1].handlerCalls = SelectSeq(SubSeq(evs, 1, k - 1), Forwardable)

\* C5: a call that has ended holds no reader lock and has released the
\* lock as often as it acquired it, at most once; the lock is held only
\* while the call reads.
C5_LockReleased ==
    /\ Terminal(1) => (~calls[1].locked /\ calls[1].releases = calls[1].acquires)
    /\ calls[1].locked => calls[1].pc = "reading"
    /\ calls[1].releases <= calls[1].acquires
    /\ calls[1].acquires <= 1

\* C5 witness: a read failed in the middle of a stream, after a handler
\* call, and the lock was released.
C5_Witness ==
    /\ ReadFailed(1)
    /\ calls[1].rest # <<>>
    /\ calls[1].handlerCalls # <<>>
    /\ calls[1].acquires = 1
    /\ calls[1].releases = 1
    /\ ~calls[1].locked

\* C6: a call whose stream was read to the end of the call, in whatever
\* chunks, has made the handler calls and has the outcome of reading the
\* same stream text as one chunk.
C6_ChunkingIndependent ==
    (Terminal(1) /\ ~ReadFailed(1) /\ calls[1].acquires = 1) =>
        LET w == ProcessChunk(calls[1].stream, JNull, <<>>, calls[1].onEvent,
                              engineQuotesSource)
        IN /\ calls[1].handlerCalls = w.handlerCalls
           /\ (calls[1].pc = "rejected") = w.thrown
           /\ calls[1].pc = "resolved" => calls[1].result = Reduce(w.finalResult)

NotMalformed(line) == ~IsMalformedLine(line)

\* C7: a chunk read leaves what reading the chunk without its malformed
\* data lines leaves: the same handler calls, the same captured payload, and
\* the call rejected in the one case exactly when in the other.
C7_MalformedSkipped ==
    [][IsReadStep =>
          LET r == ForLines(SelectSeq(Split(Consumed), NotMalformed),
                            calls[1].finalResult, calls[1].handlerCalls,
                            calls[1].onEvent, engineQuotesSource)
          IN /\ calls'[1].handlerCalls = r.handlerCalls
             /\ calls'[1].finalResult = r.finalResult
             /\ (calls'[1].pc = "rejected") = r.thrown]_vars

\* C8: a call that resolved and whose stream holds no crawl_end event
\* resolved to {success: true, time_took: 0}; a call that resolved after
\* reading line by line a stream whose last crawl_end event has a payload
\* resolved to that payload, not to the default.
C8_DefaultOrPayload ==
    LET ends == SelectSeq(EventsOf(calls[1].stream), IsEndEvent)
    IN /\ (calls[1].pc = "resolved" /\ ends = <<>>) =>
              calls[1].result = DefaultResult
       /\ (calls[1].pc = "resolved" /\ calls[1].aligned /\ ends # <<>>
              /\ PayloadOf(ends[Len(ends)]).t = "obj") =>
             /\ calls[1].result = PayloadOf(ends[Len(ends)])
             /\ calls[1].result # DefaultResult

\* C8 witness: a stream with events and no crawl_end was read to its end.
C8_Witness ==
    /\ calls[1].pc = "resolved"
    /\ calls[1].handlerCalls # <<>>
    /\ SelectSeq(EventsOf(calls[1].stream), IsEndEvent) = <<>>
    /\ calls[1].result = DefaultResult

\* C9: a call that resolved after reading line by line a stream with two
\* or more crawl_end events resolved to the payload of the last of them
\* (the default when the last has none), and to no other payload of an
\* earlier one.
C9_LastEndWins ==
    LET ends == SelectSeq(EventsOf(calls[1].stream), IsEndEvent)
        last == PayloadOf(ends[Len(ends)])
    IN (calls[1].pc = "resolved" /\ calls[1].aligned /\ Len(ends) >= 2) =>
          /\ calls[1].result = IF last.t = "obj" THEN last ELSE DefaultResult
          /\ \A i \in 1..(Len(ends) - 1) :
                 PayloadOf(ends[i]) # last => calls[1].result # PayloadOf(ends[i])

\* C9 witness: crawl_end{success:true,time_took:42}, an event, then
\* crawl_end{success:false,time_took:7} were read, the call resolved to the
\* second payload.
C9_Witness ==
    /\ calls[1].pc = "resolved"
    /\ calls[1].aligned
    /\ calls[1].stream = EndTwiceStream
    /\ calls[1].result = CrawlResult(FALSE, 7)

\* C10: the call that repeats a first call, given the same handler, the
\* same stream and the same chunk reads, makes the handler calls the first
\* made, in the same order, and comes to the same end: it has read all it
\* was given only when the first had, and then it has the first's handler
\* calls, and once ended the first's outcome (resolved to the same result,
\* or rejected with the same error).
C10_ReplaySameOutcome ==
    replay.phase = 2 =>
        /\ IsPrefix(calls[1].handlerCalls, replay.first.handlerCalls)
        /\ calls[1].pc \in {"resolved", "rejected"} => Outcome(1) = replay.first
        /\ (calls[1].pc = "reading" /\ replay.todo = <<>>) =>
              /\ replay.first.pc = "resolved"
              /\ calls[1].rest = <<>>
              /\ calls[1].handlerCalls = replay.first.handlerCalls

\* C10 witness: the example stream, read in three chunks that cut lines,
\* was read again and the second call has resolved after handler calls.
C10_Witness ==
    /\ replay.phase = 2
    /\ calls[1].pc = "resolved"
    /\ replay.stream = ExampleStream
    /\ Len(replay.log) = 3
    /\ ~calls[1].aligned
    /\ calls[1].handlerCalls # <<>>
    /\ calls[1].result = CrawlResult(TRUE, 42)

(* ------------------- claims about the three operations ----------------- *)

\* What the caller passed is malformed, in the words of the contract.
MalformedQueries(q) == q.t # "arr" \/ q.a = <<>>
NonEmptyUrl(page) ==
    page.t = "obj" /\ Get(page, "url").t = "str" /\ Get(page, "url").s # <<>>
NonEmptyDetails(page) ==
    page.t = "obj" /\ Get(page, "details").t = "arr" /\ Get(page, "details").a # <<>>
WellFormedPage(page) == NonEmptyUrl(page) /\ NonEmptyDetails(page)
MalformedPages(p) ==
    p.t # "arr" \/ p.a = <<>> \/ \E i \in 1..Len(p.a) : ~WellFormedPage(p.a[i])
MalformedInstructions(i) == i.t # "str" \/ i.s = <<>>

\* The step refused the call: it rejected, and no request was made.
Refused ==
    /\ calls'[1].pc = "rejected"
    /\ calls'[1].error # <<>>
    /\ calls'[1].requestCount = 0
    /\ calls'[1].inFlight = NoRequest

\* C11: a call of search, extract or crawl with malformed input (queries
\* or pages that are no non-empty array, a page entry without url or
\* details, instructions that are no non-empty string) rejects with an error
\* in the step that checks the input, and no request is made: a call that
\* made no request has none in flight, then or later.
C11_InvalidNeverSends ==
    /\ [][/\ \A q \in QueryInputs, ia \in IncludeAnswersInputs, o \in FreeOptionInputs :
                (SearchStep(1, q, ia, o) /\ MalformedQueries(q)) => Refused
          /\ \A p \in PagesInputs, o \in FreeOptionInputs :
                (ExtractStep(1, p, o) /\ MalformedPages(p)) => Refused
          /\ \A i \in InstructionInputs, h \in Handlers, o \in OptionInputs :
                (CrawlStep(1, i, h, o) /\ MalformedInstructions(i)) => Refused]_vars
    /\ [](calls[1].requestCount = 0 =>
             (calls[1].inFlight = NoRequest /\ calls[1].pc \in {"idle", "rejected"}))
    /\ [][calls[1].pc = "rejected" => calls'[1] = calls[1]]_vars

\* C11 witness: extract of a list whose second entry has no details was
\* refused, no request made.
C11_Witness ==
    /\ calls[1].pc = "rejected"
    /\ calls[1].requestCount = 0
    /\ calls[1].error = <<"Page at index ", "1", " is missing required field: ",
                          "details", " (must be non-empty array)">>

\* The place of the first entry that is not well formed.
FirstOffending(pages) ==
    CHOOSE i \in 1..Len(pages) :
        ~WellFormedPage(pages[i]) /\ \A j \in 1..(i - 1) : WellFormedPage(pages[j])

\* The field the entry is missing, url before details.
MissingField(page) == IF NonEmptyUrl(page) THEN "details" ELSE "url"

Names(message, word) == \E j \in 1..Len(message) : message[j] = word

\* The value JSON.parse gives the server for the body of the request.
BodyOf(request) == JSONParse(request.body, FALSE).val

\* C12: extract of a non-empty list of pages whose entries all have a
\* non-empty url and a non-empty details list makes one request, whose body
\* holds the pages as given; extract of any other non-empty list rejects
\* without a request, with an error that names the index of the first
\* entry that is not so and the field it is missing, url before details.
C12_ExtractValidOrNamed ==
    [][\A p \in PagesInputs, o \in FreeOptionInputs :
          (ExtractStep(1, p, o) /\ p.t = "arr" /\ p.a # <<>>) =>
              IF \A i \in 1..Len(p.a) : WellFormedPage(p.a[i])
              THEN /\ calls'[1].pc = "extracting"
                   /\ calls'[1].requestCount = 1
                   /\ calls'[1].inFlight.path = "/search/extract"
                   /\ Get(BodyOf(calls'[1].inFlight), "pages") = p
              ELSE /\ Refused
                   /\ Names(calls'[1].error, ToString(FirstOffending(p.a) - 1))
                   /\ Names(calls'[1].error, MissingField(p.a[FirstOffending(p.a)]))]_vars

\* C13: search of a non-empty list of queries makes one request, a POST to
\* /search whose body holds the queries as given, the same elements in the
\* same order; no call makes a second request, whatever the response.
C13_SearchOneRequest ==
    /\ [][\A q \in QueryInputs, ia \in IncludeAnswersInputs, o \in FreeOptionInputs :
             (SearchStep(1, q, ia, o) /\ q.t = "arr" /\ q.a # <<>>) =>
                 /\ calls'[1].pc = "searching"
                 /\ calls'[1].requestCount = 1
                 /\ calls'[1].inFlight.path = "/search"
                 /\ calls'[1].inFlight.method = "POST"
                 /\ Get(BodyOf(calls'[1].inFlight), "queries") = q]_vars
    /\ [](calls[1].requestCount <= 1)
    /\ [][calls[1].pc = "searching" =>
             (calls'[1].requestCount = 1 /\ calls'[1].inFlight = NoRequest
                 /\ calls'[1].pc \in {"resolved", "rejected"})]_vars

\* C13 witness: search of two queries, the second query first, has its
\* request in flight with the queries in that order.
C13_Witness ==
    /\ calls[1].pc = "searching"
    /\ calls[1].requestCount = 1
    /\ Get(BodyOf(calls[1].inFlight), "queries") = JArr(<<QueryB, QueryA>>)

\* The message the contract gives a response that is not ok: the error of
\* the body when the body parses, the reason phrase when it does not.
ContractMessage(resp) ==
    IF JSONParse(resp.body, FALSE).ok
    THEN JSToString(Get(JSONParse(resp.body, FALSE).val, "error"))
    ELSE resp.statusText

\* The words `<Operation> request failed: ` of an operation.
FailedPrefix(operation) ==
    CASE operation = "search" -> "Search request failed: "
      [] operation = "extract" -> "Extract request failed: "
      [] operation = "crawl" -> "Crawl request failed: "

\* The step is the rejection of the call of the operation on resp.
FailedOn(operation, resp) ==
    CASE operation = "search" -> SearchFailedStep(1, resp)
      [] operation = "extract" -> ExtractFailedStep(1, resp)
      [] operation = "crawl" -> FetchFailedStep(1, resp)

Operations == {"search", "extract", "crawl"}

HasErrorString(resp) ==
    /\ JSONParse(resp.body, FALSE).ok
    /\ Get(JSONParse(resp.body, FALSE).val, "error").t = "str"
    /\ Get(JSONParse(resp.body, FALSE).val, "error").s # <<>>

\* The body of the response does not parse and the status has a reason phrase.
HasReasonOnly(resp) == ~JSONParse(resp.body, FALSE).ok /\ resp.statusText # <<>>

ValueOf(o, k) == o[CHOOSE i \in 1..Len(o) : o[i][1] = k][2]

\* C15: the request of a crawl holds, for every field of the caller's
\* options, the caller's value; for every default field the caller did not
\* give, the default; no field besides these, and no field twice.
C15_OptionsMerged ==
    [][\A i \in InstructionInputs, h \in Handlers, o \in OptionInputs :
          (CrawlStep(1, i, h, o) /\ calls'[1].pc = "fetching") =>
              LET sent == calls'[1].inFlight.options
              IN /\ \A j \in 1..Len(o) :
                        HasField(sent, o[j][1]) /\ ValueOf(sent, o[j][1]) = o[j][2]
                 /\ \A j \in 1..Len(DefaultOptions) :
                        ~HasField(o, DefaultOptions[j][1]) =>
                            /\ HasField(sent, DefaultOptions[j][1])
                            /\ ValueOf(sent, DefaultOptions[j][1]) = DefaultOptions[j][2]
                 /\ \A j \in 1..Len(sent) :
                        HasField(o, sent[j][1]) \/ HasField(DefaultOptions, sent[j][1])
                 /\ \A j, k \in 1..Len(sent) : sent[j][1] = sent[k][1] => j = k]_vars

\* C15 witness: a crawl with options {maxPages: 10, thinking: false} has
\* its request in flight: thinking is the caller's, the other defaults are
\* kept, maxPages is sent.
C15_Witness ==
    /\ calls[1].pc = "fetching"
    /\ calls[1].inFlight.options =
           <<<<"type", "deep">>, <<"thinking", "false">>,
             <<"allow_thinking_callback", "true">>, <<"stream_text", "true">>,
             <<"maxPages", "10">>>>

(* ---------------------- claims about calls together -------------------- *)

\* C16: of two crawl calls that run together on one client, each has made
\* the handler calls, holds the captured payload and has come to the end
\* (resolved to the result, rejected with the error) that the read loop
\* comes to on the chunks this call read, with this call's handler, alone;
\* a step of one call leaves what the other holds as it is; and no step
\* changes the client's credentials or base URL.
C16_ConcurrentCallsIndependent ==
    /\ [](\A c \in CallIds :
             calls[c].acquires = 1 =>
                /\ calls[c].handlerCalls = replay.alone[c].handlerCalls
                /\ calls[c].finalResult = replay.alone[c].finalResult
                /\ replay.alone[c].thrown => calls[c].pc = "rejected"
                /\ calls[c].pc = "resolved" =>
                      calls[c].result = Reduce(replay.alone[c].finalResult)
                /\ calls[c].pc = "rejected" =>
                      calls[c].error = IF replay.alone[c].thrown
                                       THEN replay.alone[c].message ELSE NetworkError)
    /\ [][\A c \in CallIds :
             calls'[c] # calls[c] => \A d \in CallIds \ {c} : calls'[d] = calls[d]]_vars
    /\ [][client' = client]_vars

\* C16 witness: both calls are in the middle of their streams, the one
\* after a handler call, the other after capturing a payload, and the first
\* has captured none.
C16_Witness ==
    /\ calls[1].pc = "reading" /\ calls[2].pc = "reading"
    /\ calls[1].rest # <<>> /\ calls[2].rest # <<>>
    /\ calls[1].handlerCalls # <<>>
    /\ calls[1].finalResult = JNull
    /\ calls[2].finalResult = CrawlResult(FALSE, 7)

(* ------------------- claims about the handler and the loop ------------- *)

\* The event types the README lists for onEvent.
DocumentedTypes == {"page_crawled", "content", "thinking", "error", "crawl_end"}

\* C17: a chunk read by a call with a handler, whose first line is an
\* event of a documented type (page_crawled, content, thinking, error,
\* crawl_end), calls the handler with that event before anything else.
C17_DocumentedTypesReachHandler ==
    [][(IsReadStep /\ IsFunction(calls[1].onEvent)) =>
          LET first == Head(Split(Consumed))
              was == calls[1].handlerCalls
              now == calls'[1].handlerCalls
          IN (IsEventLine(first)
                 /\ \E type \in DocumentedTypes : HasType(EventOf(first), type)) =>
                /\ Len(now) > Len(was)
                /\ now[Len(was) + 1] = EventOf(first)]_vars

\* No line of the chunk is an error event or a malformed data line.
Harmless(chunk) ==
    \A i \in 1..Len(Split(chunk)) :
        /\ ~IsMalformedLine(Split(chunk)[i])
        /\ IsEventLine(Split(chunk)[i]) => ~IsErrorEvent(EventOf(Split(chunk)[i]))

\* The call has captured the payload of a crawl_end event.
Captured == calls[1].finalResult # JNull

\* C18: with a handler that returns, a chunk without error event (and
\* without malformed line) leaves the call reading, whatever was captured
\* before; after a crawl_end event was captured, the forwardable events of
\* such a chunk are still forwarded, a crawl_end event in it replaces the
\* captured payload, and a chunk whose first line is an error event rejects
\* the call.
C18_OnlyErrorEndsLoop ==
    [][(IsReadStep /\ calls[1].onEvent \in {"undefined", "ok"}) =>
          /\ Harmless(Consumed) => calls'[1].pc = "reading"
          /\ (Captured /\ Harmless(Consumed)) =>
                /\ calls[1].onEvent = "ok" =>
                      calls'[1].handlerCalls =
                          calls[1].handlerCalls \o SelectSeq(EventsOf(Consumed), Forwardable)
                /\ LET ends == SelectSeq(EventsOf(Consumed), IsEndEvent)
                   IN ends # <<>> => calls'[1].finalResult = PayloadOf(ends[Len(ends)])
          /\ (Captured /\ IsEventLine(Head(Split(Consumed)))
                 /\ IsErrorEvent(EventOf(Head(Split(Consumed))))) =>
                calls'[1].pc = "rejected"]_vars

\* data: {"type":"error","error":<message>}
ErrorLineOf(message) ==
    <<DataPrefix, LB>> \o StrMember("type", "error")
        \o <<Comma, S("error"), Colon, <<"str", message>>, RB>>

\* The event makes the handlers that throw throw.
IsContentEvent(ev) == HasType(ev, "content")
NotContentEvent(ev) == ~IsContentEvent(ev)

\* The lines with an error event in place of each event at which the
\* handler throws, the error being the message of what the handler throws.
AsErrorEvents(lines, onEvent) ==
    [i \in 1..Len(lines) |->
        IF IsEventLine(lines[i]) /\ IsContentEvent(EventOf(lines[i]))
        THEN ErrorLineOf(HandlerMessage(onEvent)) ELSE lines[i]]

C20_ReleasedOnceAfterLastUse ==
    /\ []((Terminal(1) /\ calls[1].acquires = 1) =>
             (calls[1].releases = 1 /\ ~calls[1].locked))
    /\ [](calls[1].releases <= 1 /\ calls[1].releases <= calls[1].acquires)
    /\ [][(IsReadStep \/ calls'[1].handlerCalls # calls[1].handlerCalls) =>
             /\ IsReadStep
             /\ calls[1].locked
             /\ calls[1].acquires = 1
             /\ calls[1].releases = 0]_vars
    /\ [][calls[1].releases = 1 =>
             /\ calls'[1].handlerCalls = calls[1].handlerCalls
             /\ calls'[1].rest = calls[1].rest
             /\ calls'[1].releases = 1]_vars

\* C20 witness: a stream with events after a crawl_end was read to its
\* end in several reads; the handler was called, and the lock was released
\* once, by the step that ended the call.
C20_Witness ==
    /\ calls[1].pc = "resolved"
    /\ calls[1].stream = EndTwiceStream
    /\ ~calls[1].aligned
    /\ calls[1].handlerCalls # <<>>
    /\ calls[1].rest = <<>>
    /\ calls[1].acquires = 1
    /\ calls[1].releases = 1
    /\ ~calls[1].locked

====
